---------------------------- MODULE Spec2Model ----------------------------
(***************************************************************************)
(* A model of apple-reminders-mcp: the AppleScriptExecutor (command        *)
(* building, the osascript subprocess, decoding of its text output) and    *)
(* the CallTool request handler of RemindersServer.                        *)
(*                                                                         *)
(* Text is a sequence of tokens.  A token is one character ("a", "\"",     *)
(* "'", "\\", " ", ",", "|", "\n", ...) or, inside a script, one fixed     *)
(* fragment of a template literal of the source ("set name of newReminder  *)
(* to ").  No fragment contains a quote, a backslash or a line break, so   *)
(* quoting and splitting are decided on the character tokens alone.        *)
(* In the tokens "$" stands for the section sign of the field sentinel     *)
(* and "~" for the line-continuation sign of the script language.          *)
(***************************************************************************)
EXTENDS Integers, Sequences, FiniteSets, TLC

VARIABLES
    pc,        \* per call: "idle", "awaiting" (suspended at await execAsync), "done"
    req,       \* per call: request.params of the tool call
    script,    \* per call: the script last handed to executeScript
    command,   \* per call: the command line last handed to execAsync
    running,   \* per call: osascript subprocesses in flight
    spawned,   \* per call: osascript subprocesses started so far
    host,      \* per call: what the interpreter printed, before any decoding
    result,    \* per call: outcome of the executor method
    response   \* per call: the tool response returned by the handler

vars == <<pc, req, script, command, running, spawned, host, result, response>>

-----------------------------------------------------------------------------
(* Bounds of the model.                                                    *)

MaxCalls == 2
MaxArgLen == 2
MaxLists == 2
MaxNameLen == 1
MaxLines == 2

-----------------------------------------------------------------------------
(* Characters and JavaScript string primitives.                            *)

DQ == "\""
SQ == "'"
BS == "\\"
NL == "\n"

\* optional values: undefined, or a value
None == [present |-> FALSE]
Some(v) == [present |-> TRUE, value |-> v]

\* every text over the alphabet A of length at most n
RECURSIVE Texts(_, _)
Texts(A, n) ==
    IF n = 0 THEN {<<>>}
    ELSE LET shorter == Texts(A, n - 1)
         IN shorter \cup {Append(t, ch) : t \in shorter, ch \in A}

\* every sequence over S of length at most n
RECURSIVE SeqsUpTo(_, _)
SeqsUpTo(S, n) ==
    IF n = 0 THEN {<<>>}
    ELSE LET shorter == SeqsUpTo(S, n - 1)
         IN shorter \cup {Append(t, e) : t \in shorter, e \in S}

\* String.prototype.trim: white space and line terminators off both ends
IsSpace(ch) == ch \in {" ", NL, "\t", "\r"}

RECURSIVE TrimStart(_)
TrimStart(s) ==
    IF s # <<>> /\ IsSpace(Head(s)) THEN TrimStart(Tail(s)) ELSE s

RECURSIVE TrimEnd(_)
TrimEnd(s) ==
    IF s # <<>> /\ IsSpace(s[Len(s)]) THEN TrimEnd(SubSeq(s, 1, Len(s) - 1)) ELSE s

Trim(s) == TrimEnd(TrimStart(s))

\* does sep occur in s at position i
OccursAt(s, sep, i) ==
    /\ i >= 1
    /\ i + Len(sep) - 1 <= Len(s)
    /\ SubSeq(s, i, i + Len(sep) - 1) = sep

Contains(s, sep) == \E i \in 1..Len(s) : OccursAt(s, sep, i)

\* String.prototype.split with a non-empty string separator: the pieces
\* between the leftmost non-overlapping occurrences
RECURSIVE Split(_, _)
Split(s, sep) ==
    LET hits == {k \in 1..Len(s) : OccursAt(s, sep, k)}
    IN IF hits = {} THEN <<s>>
       ELSE LET i == CHOOSE k \in hits : \A j \in hits : k <= j
            IN <<SubSeq(s, 1, i - 1)>>
               \o Split(SubSeq(s, i + Len(sep), Len(s)), sep)

\* Array.prototype.join
RECURSIVE Join(_, _)
Join(parts, sep) ==
    IF parts = <<>> THEN <<>>
    ELSE IF Len(parts) = 1 THEN parts[1]
    ELSE parts[1] \o sep \o Join(Tail(parts), sep)

\* template interpolation of a boolean or of a number
BoolText(b) == IF b THEN <<"true">> ELSE <<"false">>
NumText(n) == <<ToString(n)>>

\* truthiness of an optional string / number, as in `x ? a : b` and `if (x)`
TruthyStr(o) == o.present /\ o.value # <<>>
TruthyNum(o) == o.present /\ o.value # 0

-----------------------------------------------------------------------------
(* AppleScriptExecutor: the scripts.                                       *)

\* the quoted literal "${v}" of a template: the value pasted between quotes
Quoted(v) == <<DQ>> \o v \o <<DQ>>

TellOpen == <<NL, "      tell application ", DQ, "Reminders", DQ, NL>>
TellClose == <<"      end tell", NL, "    ">>

ListsScript ==
    TellOpen
    \o <<"        set listNames to {}", NL,
         "        set listIds to {}", NL,
         "        repeat with reminderList in every list", NL,
         "          set end of listNames to name of reminderList", NL,
         "          set end of listIds to id of reminderList", NL,
         "        end repeat", NL,
         "        return listNames & ", DQ, "|||", DQ, " & listIds", NL>>
    \o TellClose

\* the lines that render one reminder as sentinel-separated text, indented by ind
ReminderInfoScript(ind, target) ==
    <<ind, "set reminderInfo to (name of rem) & ", DQ, "$$$", DQ, " & ~", NL,
      ind, "  (body of rem) & ", DQ, "$$$", DQ, " & ~", NL,
      ind, "  (completed of rem) & ", DQ, "$$$", DQ, " & ~", NL,
      ind, "  (name of container of rem) & ", DQ, "$$$", DQ, " & ~", NL,
      ind, "  (id of rem) & ", DQ, "$$$", DQ, " & ~", NL,
      ind, "  (creation date of rem) & ", DQ, "$$$", DQ, " & ~", NL,
      ind, "  (modification date of rem) & ", DQ, "$$$", DQ, " & ~", NL,
      ind, "  (priority of rem)", NL,
      ind, "try", NL,
      ind, "  set dueInfo to due date of rem", NL,
      ind, "  set reminderInfo to reminderInfo & ", DQ, "$$$", DQ, " & dueInfo", NL,
      ind, "on error", NL,
      ind, "  set reminderInfo to reminderInfo & ", DQ, "$$$", DQ, NL,
      ind, "end try", NL,
      ind, "set end of ", target, " to reminderInfo", NL>>

ListFilter(listName) ==
    IF TruthyStr(listName) THEN <<"in list ">> \o Quoted(listName.value) ELSE <<>>

CompletedFilter(completed) ==
    IF completed.present
    THEN <<"whose completed is ">> \o BoolText(completed.value)
    ELSE <<>>

GetRemindersScript(listName, completed) ==
    TellOpen
    \o <<"        set reminderData to {}", NL,
         "        set targetReminders to every reminder ">>
    \o ListFilter(listName) \o <<" ">> \o CompletedFilter(completed) \o <<NL>>
    \o <<"        repeat with rem in targetReminders", NL>>
    \o ReminderInfoScript("          ", "reminderData")
    \o <<"        end repeat", NL,
         "        return reminderData", NL>>
    \o TellClose

BodyScript(body) ==
    IF TruthyStr(body)
    THEN <<"set body of newReminder to ">> \o Quoted(body.value)
    ELSE <<>>

DueDateScript(dueDate) ==
    IF TruthyStr(dueDate)
    THEN <<"set due date of newReminder to date ">> \o Quoted(dueDate.value)
    ELSE <<>>

PriorityScript(priority) ==
    IF TruthyNum(priority)
    THEN <<"set priority of newReminder to ">> \o NumText(priority.value)
    ELSE <<>>

CreateReminderScript(name, listName, body, dueDate, priority) ==
    TellOpen
    \o <<"        set targetList to list ">> \o Quoted(listName) \o <<NL>>
    \o <<"        set newReminder to make new reminder in targetList", NL>>
    \o <<"        set name of newReminder to ">> \o Quoted(name) \o <<NL>>
    \o <<"        ">> \o BodyScript(body) \o <<NL>>
    \o <<"        ">> \o DueDateScript(dueDate) \o <<NL>>
    \o <<"        ">> \o PriorityScript(priority) \o <<NL>>
    \o <<"        return id of newReminder", NL>>
    \o TellClose

\* the updateCommands array: one clause per test that passes, in source order
UpdateCommands(updates) ==
    (IF TruthyStr(updates.name)
     THEN << <<"set name of targetReminder to ">> \o Quoted(updates.name.value) >>
     ELSE <<>>)
    \o (IF updates.body.present
        THEN << <<"set body of targetReminder to ">> \o Quoted(updates.body.value) >>
        ELSE <<>>)
    \o (IF updates.completed.present
        THEN << <<"set completed of targetReminder to ">>
                \o BoolText(updates.completed.value) >>
        ELSE <<>>)
    \o (IF TruthyStr(updates.dueDate)
        THEN << <<"set due date of targetReminder to date ">>
                \o Quoted(updates.dueDate.value) >>
        ELSE <<>>)
    \o (IF updates.priority.present
        THEN << <<"set priority of targetReminder to ">>
                \o NumText(updates.priority.value) >>
        ELSE <<>>)

UpdateReminderScript(reminderId, updates) ==
    TellOpen
    \o <<"        set targetReminder to reminder id ">> \o Quoted(reminderId) \o <<NL>>
    \o <<"        ">> \o Join(UpdateCommands(updates), <<NL, "        ">>) \o <<NL>>
    \o TellClose

DeleteReminderScript(reminderId) ==
    TellOpen
    \o <<"        delete reminder id ">> \o Quoted(reminderId) \o <<NL>>
    \o TellClose

SearchRemindersScript(searchTerm) ==
    TellOpen
    \o <<"        set foundReminders to {}", NL,
         "        set allReminders to every reminder", NL,
         "        repeat with rem in allReminders", NL>>
    \o <<"          if (name of rem) contains ">> \o Quoted(searchTerm)
    \o <<" or (body of rem) contains ">> \o Quoted(searchTerm) \o <<" then", NL>>
    \o ReminderInfoScript("            ", "foundReminders")
    \o <<"          end if", NL,
         "        end repeat", NL,
         "        return foundReminders", NL>>
    \o TellClose

-----------------------------------------------------------------------------
(* AppleScriptExecutor.executeScript.                                      *)

\* script.replace(/'/g, "\\'"): a backslash in front of every single quote
\* (computed by halves, the replacement being character by character)
RECURSIVE EscapeSingleQuotes(_)
EscapeSingleQuotes(s) ==
    IF s = <<>> THEN <<>>
    ELSE IF Len(s) = 1 THEN (IF s[1] = SQ THEN <<BS, SQ>> ELSE s)
    ELSE LET half == Len(s) \div 2
         IN EscapeSingleQuotes(SubSeq(s, 1, half))
            \o EscapeSingleQuotes(SubSeq(s, half + 1, Len(s)))

\* the text after "osascript -e " in the command line given to execAsync
ShellArgument(s) == <<SQ>> \o EscapeSingleQuotes(s) \o <<SQ>>

CommandLine(s) == <<"osascript -e ">> \o ShellArgument(s)

\* return stdout.trim()
ExecuteScriptValue(stdout) == Trim(stdout)

\* throw new Error(`AppleScript execution failed: ${error}`)
ExecuteScriptError(error) == <<"AppleScript execution failed: ">> \o error

-----------------------------------------------------------------------------
(* AppleScriptExecutor: decoding of the interpreter's output.              *)

\* outcome of an async method: a value, or a thrown error with its message
Returned(v) == [ok |-> TRUE, value |-> v, message |-> <<>>]
Thrown(msg) == [ok |-> FALSE, value |-> <<>>, message |-> msg]

ListSep == <<"|", "|", "|">>
ItemSep == <<",", " ">>
FieldSep == <<"$", "$", "$">>

\* parts[i] of a JavaScript array (0-based i): undefined past the end
At(parts, i) == IF i + 1 <= Len(parts) THEN Some(parts[i + 1]) ELSE None

\* x || '' and x || undefined on an optional string
OrEmpty(o) == IF TruthyStr(o) THEN o.value ELSE <<>>
\* variant: x || '' where the source has x || undefined
OrEmptyText(o) == Some(OrEmpty(o))
OrUndefined(o) == IF TruthyStr(o) THEN Some(o.value) ELSE None

\* variant: the id one place further on
IdAtNext(ids, index) ==
    LET id == At(ids, index + 1)
    IN IF id.present /\ Trim(id.value) # <<>> THEN Trim(id.value) ELSE <<>>

\* ids[index]?.trim() || ''
IdAt(ids, index) ==
    LET id == At(ids, index)
    IN IF id.present /\ Trim(id.value) # <<>> THEN Trim(id.value) ELSE <<>>

\* reading an undefined idsStr throws a TypeError
TypeErrorMessage ==
    <<"Cannot read properties of undefined (reading ", SQ, "split", SQ, ")">>

\* getReminderLists, from the trimmed output on
DecodeLists(text) ==
    LET groups == Split(text, ListSep)
        namesStr == groups[1]
        idsStr == At(groups, 1)
    IN IF ~idsStr.present THEN Thrown(TypeErrorMessage)
       ELSE LET names == Split(namesStr, ItemSep)
                ids == Split(idsStr.value, ItemSep)
            IN Returned([i \in 1..Len(names) |->
                            [name |-> Trim(names[i]), id |-> IdAt(ids, i - 1)]])

\* parseInt(x): NaN, or the integer read off the front of the text
NaN == [nan |-> TRUE, int |-> 0]
Int_(n) == [nan |-> FALSE, int |-> n]

DigitValue(ch) ==
    CASE ch = "0" -> 0 [] ch = "1" -> 1 [] ch = "2" -> 2 [] ch = "3" -> 3
      [] ch = "4" -> 4 [] ch = "5" -> 5 [] ch = "6" -> 6 [] ch = "7" -> 7
      [] ch = "8" -> 8 [] ch = "9" -> 9
      [] ch \in {"a", "A"} -> 10 [] ch \in {"b", "B"} -> 11
      [] ch \in {"c", "C"} -> 12 [] ch \in {"d", "D"} -> 13
      [] ch \in {"e", "E"} -> 14 [] ch \in {"f", "F"} -> 15
      [] OTHER -> 99

\* the value of the longest prefix of s made of digits of the radix, after acc
RECURSIVE Digits(_, _, _, _)
Digits(s, radix, acc, seen) ==
    IF s # <<>> /\ DigitValue(Head(s)) < radix
    THEN Digits(Tail(s), radix, acc * radix + DigitValue(Head(s)), TRUE)
    ELSE IF seen THEN Int_(acc) ELSE NaN

ParseInt(o) ==
    IF ~o.present THEN NaN
    ELSE LET t == TrimStart(o.value)
             neg == t # <<>> /\ Head(t) = "-"
             u == IF t # <<>> /\ Head(t) \in {"-", "+"} THEN Tail(t) ELSE t
             hex == Len(u) >= 2 /\ u[1] = "0" /\ u[2] \in {"x", "X"}
             n == IF hex THEN Digits(Tail(Tail(u)), 16, 0, FALSE)
                  ELSE Digits(u, 10, 0, FALSE)
         IN IF n.nan THEN NaN ELSE Int_(IF neg THEN 0 - n.int ELSE n.int)

\* variant: only the priorities 1, 5 and 9 of the tool schema are kept
PriorityOfKnown(o) ==
    LET n == ParseInt(o) IN IF n.nan \/ n.int \notin {1, 5, 9} THEN 0 ELSE n.int

\* parseInt(x) || 0
PriorityOf(o) ==
    LET n == ParseInt(o) IN IF n.nan \/ n.int = 0 THEN 0 ELSE n.int

True == <<"t", "r", "u", "e">>

\* variant: the completed slot is trimmed before it is compared
DecodeLineTrimmed(line) ==
    LET parts == Split(line, FieldSep)
    IN [name |-> OrEmpty(At(parts, 0)),
        body |-> OrUndefined(At(parts, 1)),
        completed |-> (At(parts, 2).present /\ Trim(At(parts, 2).value) = True),
        list |-> OrEmpty(At(parts, 3)),
        id |-> OrEmpty(At(parts, 4)),
        creationDate |-> OrEmpty(At(parts, 5)),
        modificationDate |-> OrEmpty(At(parts, 6)),
        priority |-> PriorityOf(At(parts, 7)),
        dueDate |-> OrUndefined(At(parts, 8))]

\* the object literal built from one line, in getReminders and searchReminders
DecodeLine(line) ==
    LET parts == Split(line, FieldSep)
    IN [name |-> OrEmpty(At(parts, 0)),
        body |-> OrUndefined(At(parts, 1)),
        completed |-> (At(parts, 2).present /\ At(parts, 2).value = True),
        list |-> OrEmpty(At(parts, 3)),
        id |-> OrEmpty(At(parts, 4)),
        creationDate |-> OrEmpty(At(parts, 5)),
        modificationDate |-> OrEmpty(At(parts, 6)),
        priority |-> PriorityOf(At(parts, 7)),
        dueDate |-> OrUndefined(At(parts, 8))]

NonBlank(line) == Trim(line) # <<>>

\* .filter(line => line.trim())
RECURSIVE FilterNonBlank(_)
FilterNonBlank(xs) ==
    IF xs = <<>> THEN <<>>
    ELSE (IF NonBlank(Head(xs)) THEN <<Head(xs)>> ELSE <<>>)
         \o FilterNonBlank(Tail(xs))

\* getReminders and searchReminders, from the trimmed output on
DecodeReminders(text) ==
    IF text = <<>> THEN <<>>
    ELSE LET reminderLines == FilterNonBlank(Split(text, <<NL>>))
         IN [i \in 1..Len(reminderLines) |-> DecodeLine(reminderLines[i])]

-----------------------------------------------------------------------------
(* RemindersServer: the CallTool request handler.                          *)

Calls == 1..MaxCalls

ArgNames ==
    {"listName", "completed", "searchTerm", "name", "body", "dueDate",
     "priority", "reminderId"}

\* request.params.arguments with nothing supplied
NoArguments == [a \in ArgNames |-> None]

Request(tool, args) == [name |-> tool, arguments |-> args]

\* the executor method one tool call runs, "none" for the default branch
Method(r) ==
    CASE r.name = "list_reminder_lists" -> "getReminderLists"
      [] r.name = "get_reminders" ->
            IF TruthyStr(r.arguments.searchTerm) THEN "searchReminders"
            ELSE "getReminders"
      [] r.name = "create_reminder" -> "createReminder"
      [] r.name = "update_reminder" -> "updateReminder"
      [] r.name = "delete_reminder" -> "deleteReminder"
      [] r.name = "search_reminders" -> "searchReminders"
      [] OTHER -> "none"

\* const { reminderId, ...updates } = request.params.arguments
Updates(a) ==
    [name |-> a.name, body |-> a.body, completed |-> a.completed,
     dueDate |-> a.dueDate, priority |-> a.priority]

\* the script the executor method of the call builds
ScriptOf(r) ==
    LET a == r.arguments
        m == Method(r)
    IN CASE m = "getReminderLists" -> ListsScript
         [] m = "getReminders" -> GetRemindersScript(a.listName, a.completed)
         [] m = "searchReminders" -> SearchRemindersScript(a.searchTerm.value)
         [] m = "createReminder" ->
                CreateReminderScript(a.name.value, a.listName.value, a.body,
                                     a.dueDate, a.priority)
         [] m = "updateReminder" ->
                UpdateReminderScript(a.reminderId.value, Updates(a))
         [] m = "deleteReminder" -> DeleteReminderScript(a.reminderId.value)
         [] OTHER -> <<>>

\* variant: get_reminders with a searchTerm runs the search and the listing
SubprocessesBoth(r) ==
    IF Method(r) = "none" THEN 0
    ELSE IF r.name = "get_reminders" /\ TruthyStr(r.arguments.searchTerm) THEN 2
    ELSE 1

\* how many executor methods, each one osascript subprocess, a tool call starts
Subprocesses(r) == IF Method(r) = "none" THEN 0 ELSE 1

\* variant: the catch block returns an empty output
ExecuteScriptSwallow(x) ==
    IF x.exit = "ok" THEN Returned(ExecuteScriptValue(x.stdout))
    ELSE Returned(<<>>)

\* executeScript once the subprocess is over: x is what execAsync settled with
ExecuteScript(x) ==
    IF x.exit = "ok" THEN Returned(ExecuteScriptValue(x.stdout))
    ELSE Thrown(ExecuteScriptError(x.error))

\* the rest of the executor method after `await this.executeScript(script)`
MethodOutcome(m, executed) ==
    IF ~executed.ok THEN executed
    ELSE CASE m = "getReminderLists" -> DecodeLists(executed.value)
           [] m \in {"getReminders", "searchReminders"} ->
                  Returned(DecodeReminders(executed.value))
           [] m = "createReminder" -> executed
           [] OTHER -> Returned(<<>>)

\* reminders.filter(r => r.list === listName), .filter(r => r.completed === completed)
RECURSIVE FilterReminders(_, _, _)
FilterReminders(rs, listName, completed) ==
    IF rs = <<>> THEN <<>>
    ELSE LET r == Head(rs)
             keep == /\ (TruthyStr(listName) => r.list = listName.value)
                     /\ (completed.present => r.completed = completed.value)
         IN (IF keep THEN <<r>> ELSE <<>>)
            \o FilterReminders(Tail(rs), listName, completed)

TextResponse(text) == [isError |-> FALSE, text |-> text, json |-> <<>>]
\* text: JSON.stringify(v, null, 2); json holds the value v that is rendered
JsonResponse(v) == [isError |-> FALSE, text |-> <<"JSON.stringify">>, json |-> v]
ErrorResponse(message) ==
    [isError |-> TRUE, text |-> <<"Error: ">> \o message, json |-> <<>>]
NoResponse == [isError |-> FALSE, text |-> <<>>, json |-> <<>>]

\* what the handler returns once its executor method has settled
Respond(r, outcome) ==
    LET a == r.arguments
    IN IF ~outcome.ok THEN ErrorResponse(outcome.message)
       ELSE CASE r.name = "list_reminder_lists" -> JsonResponse(outcome.value)
              [] r.name = "get_reminders" ->
                     IF TruthyStr(a.searchTerm)
                     THEN JsonResponse(FilterReminders(outcome.value, a.listName,
                                                       a.completed))
                     ELSE JsonResponse(outcome.value)
              [] r.name = "create_reminder" ->
                     TextResponse(<<"Reminder created successfully with ID: ">>
                                  \o outcome.value)
              [] r.name = "update_reminder" ->
                     TextResponse(<<"Reminder ">> \o a.reminderId.value
                                  \o <<" updated successfully">>)
              [] r.name = "delete_reminder" ->
                     TextResponse(<<"Reminder ">> \o a.reminderId.value
                                  \o <<" deleted successfully">>)
              [] OTHER -> JsonResponse(outcome.value)

NoRequest == Request("", NoArguments)
NoOutcome == [ok |-> TRUE, value |-> <<>>, message |-> <<>>]
NoExit ==
    [exit |-> "none", stdout |-> <<>>, error |-> <<>>,
     names |-> <<>>, ids |-> <<>>, lines |-> <<>>]

\* execAsync resolved with stdout / rejected with error
Resolved(stdout) == [NoExit EXCEPT !.exit = "ok", !.stdout = stdout]
Rejected(error) == [NoExit EXCEPT !.exit = "failed", !.error = error]

Init ==
    /\ pc = [c \in Calls |-> "idle"]
    /\ req = [c \in Calls |-> NoRequest]
    /\ script = [c \in Calls |-> <<>>]
    /\ command = [c \in Calls |-> <<>>]
    /\ running = [c \in Calls |-> 0]
    /\ spawned = [c \in Calls |-> 0]
    /\ host = [c \in Calls |-> NoExit]
    /\ result = [c \in Calls |-> NoOutcome]
    /\ response = [c \in Calls |-> NoResponse]

\* the handler is entered with request r and runs to its first await: it builds
\* the script and starts osascript, or throws "Unknown tool" and answers at once
CallTool(c, Rs) ==
    /\ pc[c] = "idle"
    /\ \E r \in Rs :
        /\ req' = [req EXCEPT ![c] = r]
        /\ IF Subprocesses(r) = 0
           THEN /\ pc' = [pc EXCEPT ![c] = "done"]
                /\ result' = [result EXCEPT ![c] = Thrown(<<"Unknown tool: ", r.name>>)]
                /\ response' = [response EXCEPT
                                   ![c] = ErrorResponse(<<"Unknown tool: ", r.name>>)]
                /\ UNCHANGED <<script, command, running, spawned>>
           ELSE /\ pc' = [pc EXCEPT ![c] = "awaiting"]
                /\ script' = [script EXCEPT ![c] = ScriptOf(r)]
                /\ command' = [command EXCEPT ![c] = CommandLine(ScriptOf(r))]
                /\ running' = [running EXCEPT ![c] = @ + Subprocesses(r)]
                /\ spawned' = [spawned EXCEPT ![c] = @ + Subprocesses(r)]
                /\ UNCHANGED <<result, response>>
        /\ UNCHANGED host

\* the subprocess of call c is over with x; the method and the handler resume
\* and run to the end
Settle(c, x) ==
    LET outcome == MethodOutcome(Method(req[c]), ExecuteScript(x))
    IN /\ pc[c] = "awaiting"
       /\ running[c] > 0
       /\ host' = [host EXCEPT ![c] = x]
       /\ running' = [running EXCEPT ![c] = @ - 1]
       /\ result' = [result EXCEPT ![c] = outcome]
       /\ response' = [response EXCEPT ![c] = Respond(req[c], outcome)]
       /\ pc' = [pc EXCEPT ![c] = "done"]
       /\ UNCHANGED <<req, script, command, spawned>>

\* osascript exits with status 0
ExecResolves(c, Xs) ==
    /\ pc[c] = "awaiting"
    /\ \E x \in Xs : x.exit = "ok" /\ Settle(c, x)

\* variant: the command is run once more after a failure
ExecRejectsRetry(c, Xs) ==
    /\ pc[c] = "awaiting"
    /\ \E x \in Xs :
        /\ x.exit = "failed"
        /\ IF spawned[c] < 2
           THEN /\ spawned' = [spawned EXCEPT ![c] = @ + 1]
                /\ host' = [host EXCEPT ![c] = x]
                /\ UNCHANGED <<pc, req, script, command, running, result, response>>
           ELSE Settle(c, x)

\* osascript cannot be spawned or exits with a non-zero status
ExecRejects(c, Xs) ==
    /\ pc[c] = "awaiting"
    /\ \E x \in Xs : x.exit = "failed" /\ Settle(c, x)

-----------------------------------------------------------------------------
(* The tool calls and subprocess results the specifications draw from.     *)

Txt(a) == Some(<<a>>)
PlainStr == {None, Some(<<>>), Txt("a")}
Bools == {None, Some(TRUE), Some(FALSE)}

\* argument texts: a letter, both quotes and the backslash
ArgChars == {"a", DQ, SQ, BS}
ArgTexts == Texts(ArgChars, MaxArgLen)

ListTool == Request("list_reminder_lists", NoArguments)
DeleteTool(id) == Request("delete_reminder", [NoArguments EXCEPT !.reminderId = Some(id)])
SearchTool(term) ==
    Request("search_reminders", [NoArguments EXCEPT !.searchTerm = Some(term)])
GetTool(listName, completed, searchTerm) ==
    Request("get_reminders",
            [NoArguments EXCEPT !.listName = listName, !.completed = completed,
                                !.searchTerm = searchTerm])
CreateTool(name, listName, body, dueDate, priority) ==
    Request("create_reminder",
            [NoArguments EXCEPT !.name = Some(name), !.listName = Some(listName),
                                !.body = body, !.dueDate = dueDate,
                                !.priority = priority])
UpdateTool(id, name, body, completed, dueDate, priority) ==
    Request("update_reminder",
            [NoArguments EXCEPT !.reminderId = Some(id), !.name = name,
                                !.body = body, !.completed = completed,
                                !.dueDate = dueDate, !.priority = priority])

\* request r with its string argument f set to the text v
WithText(r, f, v) == [r EXCEPT !.arguments[f] = Some(v)]

\* every combination of present and absent optional arguments over plain
\* values, and each string argument in turn over every argument text
PlainCreates ==
    {CreateTool(<<"a">>, <<"L">>, b, d, p) :
        b \in PlainStr, d \in PlainStr,
        p \in {None, Some(0), Some(1), Some(5), Some(9)}}
CreateRequests(texts) ==
    PlainCreates
    \cup {WithText(r, f, v) : r \in PlainCreates,
                              f \in {"name", "listName", "body", "dueDate"},
                              v \in texts}

PlainUpdates ==
    {UpdateTool(<<"i">>, n, b, c, d, p) :
        n \in PlainStr, b \in PlainStr, c \in Bools, d \in PlainStr,
        p \in {None, Some(0), Some(5)}}
UpdateRequests(texts) ==
    PlainUpdates
    \cup {WithText(r, f, v) : r \in PlainUpdates,
                              f \in {"reminderId", "name", "body", "dueDate"},
                              v \in texts}

Optional(texts) == {None} \cup {Some(v) : v \in texts}
GetRequests(texts) ==
    {GetTool(l, c, t) : l \in Optional(texts), c \in Bools, t \in Optional(texts)}

\* the tool calls whose string arguments range over texts
BuildRequests(texts) ==
    {ListTool} \cup GetRequests(texts) \cup CreateRequests(texts)
    \cup UpdateRequests(texts)
    \cup {DeleteTool(v) : v \in texts} \cup {SearchTool(v) : v \in texts}

BuildExits == {Resolved(<<" ", "i", "d", NL>>), Rejected(<<"e">>)}

\* what osascript prints for two parallel lists joined around the separator
ListsOutput(names, ids) ==
    [Resolved(Join(names, ItemSep) \o ListSep \o Join(ids, ItemSep) \o <<NL>>)
        EXCEPT !.names = names, !.ids = ids]

NameChars == {"A", " ", "|"}
NameTexts == Texts(NameChars, MaxNameLen)
IdTexts == {<<>>, <<"i">>, <<" ">>}

\* up to n names with as many ids, or with one id less or one id more
ListsExits(n) ==
    {x \in {ListsOutput(names, ids) :
                names \in SeqsUpTo(NameTexts, n),
                ids \in SeqsUpTo(IdTexts, n)} :
        Len(x.ids) \in {Len(x.names) - 1, Len(x.names), Len(x.names) + 1}}
    \cup {Resolved(<<>>), Resolved(<<"A", NL>>), Rejected(<<"e">>)}

\* what osascript prints for reminders: a line per reminder, the slots of a
\* line joined by the field sentinel
LineOf(slots) == Join(slots, FieldSep)
LinesOutput(lines) ==
    [Resolved(Join([i \in 1..Len(lines) |-> LineOf(lines[i])], <<NL>>) \o <<NL>>)
        EXCEPT !.lines = lines]

CompletedTexts ==
    {<<>>, True, <<"0">>, <<"n", "o">>, <<"T", "r", "u", "e">>,
     <<" ", "t", "r", "u", "e">>}
PriorityTexts ==
    {<<>>, <<"0">>, <<"1">>, <<"5">>, <<"9">>, <<"3">>, <<"a", "b", "c">>,
     <<"1", "2">>, <<"-", "1">>, <<"3", "x">>}

FullLines ==
    {<<<<"n">>, b, c, <<"L">>, <<"i">>, <<"c">>, <<"m">>, p, d>> :
        b \in {<<>>, <<"b">>}, c \in CompletedTexts, p \in PriorityTexts,
        d \in {<<>>, <<"d">>}}

\* every line with 1 to 9 slots
FirstLines == {SubSeq(l, 1, k) : l \in FullLines, k \in 1..9}

\* the lines after the first: a blank one, a short one, a full one
MoreLines ==
    {<<<<" ">>>>, <<<<"n", "2">>, <<>>>>,
     <<<<"n", "3">>, <<"b">>, True, <<"W">>, <<"j">>, <<"c">>, <<"m">>, <<"5">>,
       <<"d">>>>}

\* up to MaxLines lines
ReminderExits ==
    {LinesOutput(<<l>> \o more) :
        l \in FirstLines, more \in SeqsUpTo(MoreLines, MaxLines - 1)}
    \cup {Resolved(<<>>), Resolved(<<NL>>), Rejected(<<"e">>)}

ReminderRequests == {GetTool(None, None, None), SearchTool(<<"a">>)}

DispatchRequests ==
    {ListTool, DeleteTool(<<"i">>), SearchTool(<<"a">>),
     CreateTool(<<"a">>, <<"L">>, None, None, None),
     UpdateTool(<<"i">>, None, None, Some(TRUE), None, None),
     Request("rename_list", NoArguments)}
    \cup {GetTool(f[1], f[2], t) :
              f \in {<<None, None>>, <<Txt("L"), Some(FALSE)>>},
              t \in {None, Txt("a")}}

DispatchExits ==
    {Resolved(<<>>), Resolved(<<"i", NL>>),
     ListsOutput(<<<<"A">>>>, <<<<"i">>>>),
     LinesOutput(<<<<<<"n">>, <<>>, True, <<"L">>, <<"i">>>>>>),
     Rejected(<<"e">>)}

-----------------------------------------------------------------------------
(* Specifications.                                                         *)

\* the server: tool calls arrive at any time, also while others are pending
Next ==
    \E c \in Calls :
        \/ CallTool(c, DispatchRequests)
        \/ ExecResolves(c, DispatchExits)
        \/ ExecRejects(c, DispatchExits)

Spec == Init /\ [][Next]_vars

\* one tool call, over the argument texts: the scripts and command lines
NextBuild ==
    \/ CallTool(1, BuildRequests(ArgTexts))
    \/ ExecResolves(1, BuildExits)
    \/ ExecRejects(1, BuildExits)

SpecBuild == Init /\ [][NextBuild]_vars

\* one list_reminder_lists call, over the texts the interpreter may print
NextLists ==
    \/ CallTool(1, {ListTool})
    \/ ExecResolves(1, ListsExits(MaxLists))
    \/ ExecRejects(1, ListsExits(MaxLists))

SpecLists == Init /\ [][NextLists]_vars

\* one call that reads reminders, over the lines the interpreter may print
NextReminders ==
    \/ CallTool(1, ReminderRequests)
    \/ ExecResolves(1, ReminderExits)
    \/ ExecRejects(1, ReminderExits)

SpecReminders == Init /\ [][NextReminders]_vars

-----------------------------------------------------------------------------
(* Properties of the command builder.                                      *)

\* the call has been made: its script and command line are built
Built(c) == pc[c] # "idle" /\ spawned[c] > 0

\* a text with a backslash put in front of every double quote
RECURSIVE EscapeDoubleQuotes(_)
EscapeDoubleQuotes(v) ==
    IF v = <<>> THEN <<>>
    ELSE (IF Head(v) = DQ THEN <<BS, DQ>> ELSE <<Head(v)>>)
         \o EscapeDoubleQuotes(Tail(v))

\* the string arguments the method of request r pastes into its script
Interpolated(r) ==
    LET a == r.arguments
        m == Method(r)
        opt(o) == IF TruthyStr(o) THEN {o.value} ELSE {}
    IN CASE m = "getReminders" -> opt(a.listName)
         [] m = "searchReminders" -> {a.searchTerm.value}
         [] m = "createReminder" ->
                {a.name.value, a.listName.value} \cup opt(a.body) \cup opt(a.dueDate)
         [] m = "updateReminder" ->
                {a.reminderId.value} \cup opt(a.name) \cup opt(a.dueDate)
                \cup (IF a.body.present THEN {a.body.value} ELSE {})
         [] m = "deleteReminder" -> {a.reminderId.value}
         [] OTHER -> {}

\* C1: every string argument pasted into a script stands there as a literal
\* whose double quotes are all escaped: the script holds the opening quote,
\* the value with a backslash before each of its double quotes, and the
\* closing quote.
C1_DoubleQuotesEscaped ==
    Built(1) =>
        \A v \in Interpolated(req[1]) :
            Contains(script[1], Quoted(EscapeDoubleQuotes(v)))

\* the content of the single-quoted string a shell reads at the front of
\* text (everything up to the next single quote, no escapes), and what
\* follows its closing quote
SingleQuoted(text) ==
    LET rest == Tail(text)
        close == IF Contains(rest, <<SQ>>)
                 THEN CHOOSE k \in 1..Len(rest) :
                          rest[k] = SQ /\ \A j \in 1..(k - 1) : rest[j] # SQ
                 ELSE Len(rest) + 1
    IN [opened |-> text # <<>> /\ Head(text) = SQ,
        closed |-> close <= Len(rest),
        content |-> SubSeq(rest, 1, close - 1),
        after |-> SubSeq(rest, close + 1, Len(rest))]

\* C2: read by the shell's single-quote rules, what follows `osascript -e `
\* in the command line is one single-quoted argument, its content is the
\* whole script and nothing is left outside it.
C2_OneQuotedArgument ==
    Built(1) =>
        LET q == SingleQuoted(Tail(command[1]))
        IN q.opened /\ q.closed /\ q.content = script[1] /\ q.after = <<>>

\* the tokens of text that belong to the set heads, in their order
RECURSIVE Heads(_, _)
Heads(text, heads) ==
    IF text = <<>> THEN <<>>
    ELSE IF Len(text) = 1 THEN (IF text[1] \in heads THEN text ELSE <<>>)
    ELSE LET half == Len(text) \div 2
         IN Heads(SubSeq(text, 1, half), heads)
            \o Heads(SubSeq(text, half + 1, Len(text)), heads)

UpdateHeads ==
    {"set name of targetReminder to ", "set body of targetReminder to ",
     "set completed of targetReminder to ",
     "set due date of targetReminder to date ",
     "set priority of targetReminder to "}

When(present, head) == IF present THEN <<head>> ELSE <<>>

\* C3: the script of updateReminder holds one assignment clause for each
\* field that is present in the updates, none for an absent field, in the
\* order name, body, completed, dueDate, priority.
C3_ClausePerPresentField ==
    (Built(1) /\ Method(req[1]) = "updateReminder") =>
        LET a == req[1].arguments
        IN Heads(script[1], UpdateHeads) =
               When(a.name.present, "set name of targetReminder to ")
               \o When(a.body.present, "set body of targetReminder to ")
               \o When(a.completed.present, "set completed of targetReminder to ")
               \o When(a.dueDate.present, "set due date of targetReminder to date ")
               \o When(a.priority.present, "set priority of targetReminder to ")

CreateHeads ==
    {"        set name of newReminder to ", "set body of newReminder to ",
     "set due date of newReminder to date ", "set priority of newReminder to "}

\* C4: the script of createReminder sets the name and holds the body, due
\* date and priority clause exactly for the optional arguments that were
\* supplied; with none supplied the call returns the trimmed output.
C4_ClausePerSuppliedArgument ==
    (Built(1) /\ Method(req[1]) = "createReminder") =>
        LET a == req[1].arguments
        IN /\ Heads(script[1], CreateHeads) =
                  <<"        set name of newReminder to ">>
                  \o When(a.body.present, "set body of newReminder to ")
                  \o When(a.dueDate.present, "set due date of newReminder to date ")
                  \o When(a.priority.present, "set priority of newReminder to ")
           /\ (/\ pc[1] = "done"
               /\ host[1].exit = "ok"
               /\ ~a.body.present /\ ~a.dueDate.present /\ ~a.priority.present)
              => (result[1].ok /\ result[1].value = Trim(host[1].stdout))

-----------------------------------------------------------------------------
(* Properties of failure propagation and of the list decoder.              *)

\* call c is over and its subprocess failed to spawn or exited non-zero
Failed(c) == pc[c] = "done" /\ host[c].exit = "failed"

\* call c is over and its subprocess exited with status 0
Succeeded(c) == pc[c] = "done" /\ host[c].exit = "ok"

\* C5: when the subprocess of a call fails, the executor method ends in an
\* error whose message carries the diagnostic text, never in a value, and
\* the tool response is marked as an error and carries the text too.
C5_FailurePropagates ==
    \A c \in Calls :
        Failed(c) =>
            /\ ~result[c].ok
            /\ Contains(result[c].message, host[c].error)
            /\ response[c].isError
            /\ Contains(response[c].text, host[c].error)

C5_Witness ==
    \E c \in Calls :
        /\ Failed(c)
        /\ Method(req[c]) = "getReminderLists"
        /\ host[c].error # <<>>
        /\ response[c].isError

\* the message of an interpreter invocation failure
IsInvocationFailure(outcome) ==
    /\ ~outcome.ok
    /\ outcome.message # <<>>
    /\ Head(outcome.message) = "AppleScript execution failed: "

\* the name array and the id array the decoder splits the output into differ
\* in length, or there is no id group at all
Mismatched(stdout) ==
    LET groups == Split(Trim(stdout), ListSep)
    IN \/ Len(groups) < 2
       \/ Len(Split(groups[1], ItemSep)) # Len(Split(groups[2], ItemSep))

\* C6: getReminderLists ends in a decode failure, told apart from an
\* invocation failure, whenever the output splits into name and id arrays of
\* different lengths; it returns no records then.
C6_MismatchIsDecodeFailure ==
    (Succeeded(1) /\ Mismatched(host[1].stdout)) =>
        (~result[1].ok /\ ~IsInvocationFailure(result[1]))

\* names and ids are n >= 1 texts each, none holding ", " or "|||"
WellFormedLists(names, ids) ==
    /\ Len(names) >= 1
    /\ Len(names) = Len(ids)
    /\ \A i \in 1..Len(names) :
           /\ ~Contains(names[i], ItemSep) /\ ~Contains(names[i], ListSep)
           /\ ~Contains(ids[i], ItemSep) /\ ~Contains(ids[i], ListSep)

\* C7 as stated: the records are the names paired with the ids, unchanged
C7_PairsExactly ==
    (Succeeded(1) /\ WellFormedLists(host[1].names, host[1].ids)) =>
        /\ result[1].ok
        /\ result[1].value =
               [i \in 1..Len(host[1].names) |->
                   [name |-> host[1].names[i], id |-> host[1].ids[i]]]

EndsWith(s, ch) == s # <<>> /\ s[Len(s)] = ch

\* the last name does not end in "|", and the last of several ids is not blank
Separable(names, ids) ==
    /\ ~EndsWith(names[Len(names)], "|")
    /\ (Len(ids) >= 2 => Trim(ids[Len(ids)]) # <<>>)

\* C7: for n >= 1 names and n ids, none holding ", " or "|||", the last name
\* not ending in "|" and, when n >= 2, the last id not blank, decoding the
\* joined text yields n records in order, the record at index i pairing the
\* trimmed name i with the trimmed id i.
C7_PairsTrimmed ==
    (/\ Succeeded(1)
     /\ WellFormedLists(host[1].names, host[1].ids)
     /\ Separable(host[1].names, host[1].ids)) =>
        /\ result[1].ok
        /\ result[1].value =
               [i \in 1..Len(host[1].names) |->
                   [name |-> Trim(host[1].names[i]), id |-> Trim(host[1].ids[i])]]

C7_Witness ==
    /\ Succeeded(1)
    /\ WellFormedLists(host[1].names, host[1].ids)
    /\ Separable(host[1].names, host[1].ids)
    /\ Len(host[1].names) = 2
    /\ host[1].names[1] # host[1].names[2]
    /\ \E i \in 1..2 : Trim(host[1].names[i]) # host[1].names[i]
    /\ Len(result[1].value) = 2

-----------------------------------------------------------------------------
(* Properties of the subprocesses.                                         *)

RECURSIVE Sum(_, _)
Sum(f, S) ==
    IF S = {} THEN 0
    ELSE LET c == CHOOSE x \in S : TRUE IN f[c] + Sum(f, S \ {c})

\* C8 as stated: at most one subprocess is in flight over all tool calls
C8_OneInFlight == Sum(running, Calls) <= 1

\* C8: every tool call has at most one subprocess in flight, exactly while
\* it is suspended on it; calls are not serialised against each other, so
\* the subprocesses in flight are as many as the calls that are suspended.
C8_OneInFlightPerCall ==
    /\ \A c \in Calls : running[c] = (IF pc[c] = "awaiting" THEN 1 ELSE 0)
    /\ Sum(running, Calls) = Cardinality({c \in Calls : pc[c] = "awaiting"})

C8_Witness ==
    \E c, d \in Calls :
        /\ c # d
        /\ pc[c] = "awaiting" /\ running[c] = 1
        /\ pc[d] = "awaiting" /\ running[d] = 1

\* C9: a tool call starts at most one subprocess over its whole lifetime, and
\* exactly one when its subprocess failed: a failure is not retried.
C9_AtMostOneSubprocess ==
    \A c \in Calls :
        /\ spawned[c] <= 1
        /\ (pc[c] = "done" /\ host[c].exit # "none") => spawned[c] = 1

C9_Witness ==
    \E c, d \in Calls :
        /\ Failed(c) /\ Method(req[c]) = "createReminder" /\ spawned[c] = 1
        /\ Succeeded(d) /\ req[d].name = "get_reminders"
        /\ Method(req[d]) = "searchReminders" /\ spawned[d] = 1

-----------------------------------------------------------------------------
(* Properties of the reminder decoder.                                     *)

\* the lines the interpreter printed that are not blank, as slot sequences
RECURSIVE NonBlankLines(_)
NonBlankLines(lines) ==
    IF lines = <<>> THEN <<>>
    ELSE (IF NonBlank(LineOf(Head(lines))) THEN <<Head(lines)>> ELSE <<>>)
         \o NonBlankLines(Tail(lines))

\* slot k of a line is missing or empty
NoSlot(slots, k) == Len(slots) < k \/ slots[k] = <<>>

\* C10: a result whose lines have 1 to 9 slots decodes without an error to
\* one record per non-blank line, in line order; a missing or empty body or
\* dueDate slot decodes to undefined, a missing priority slot to 0, and a
\* result without lines decodes to no records.
C10_DecodesShortLines ==
    Succeeded(1) =>
        LET lines == NonBlankLines(host[1].lines)
            recs == result[1].value
        IN /\ result[1].ok
           /\ Len(recs) = Len(lines)
           /\ \A i \in 1..Len(lines) :
                  /\ recs[i].name = lines[i][1]
                  /\ NoSlot(lines[i], 2) => recs[i].body = None
                  /\ NoSlot(lines[i], 9) => recs[i].dueDate = None
                  /\ Len(lines[i]) < 8 => recs[i].priority = 0
           /\ Trim(host[1].stdout) = <<>> => recs = <<>>

C10_Witness ==
    /\ Succeeded(1)
    /\ Len(host[1].lines) = 2
    /\ Len(host[1].lines[1]) = 3
    /\ Len(host[1].lines[2]) = 2
    /\ Len(result[1].value) = 2
    /\ result[1].value[1].body = Txt("b")
    /\ result[1].value[2].body = None

-----------------------------------------------------------------------------
(* Properties of the getReminders query.                                   *)

FilterHeads == {"in list ", "whose completed is "}

\* the query line without any clause
UnfilteredQuery == <<"        set targetReminders to every reminder ", " ", NL>>

\* C11: the query of getReminders holds the list-scoping clause exactly when
\* listName is present and the completion-filter clause, with the boolean as
\* its word, exactly when completed is present; the list clause comes first,
\* and with both absent the query is the unfiltered `every reminder`.
C11_ClausePerPresentFilter ==
    (Built(1) /\ Method(req[1]) = "getReminders") =>
        LET a == req[1].arguments
        IN /\ Heads(script[1], FilterHeads) =
                  When(a.listName.present, "in list ")
                  \o When(a.completed.present, "whose completed is ")
           /\ a.listName.present =>
                  Contains(script[1], <<"in list ">> \o Quoted(a.listName.value))
           /\ a.completed.present =>
                  Contains(script[1], <<"whose completed is ">>
                                          \o BoolText(a.completed.value))
           /\ (~a.listName.present /\ ~a.completed.present) =>
                  Contains(script[1], UnfilteredQuery)

-----------------------------------------------------------------------------
(* Properties of the priority and completed slots.                         *)

\* the priority texts of the claim with the numbers they stand for
PriorityInputs ==
    {<<>>, <<"0">>, <<"1">>, <<"5">>, <<"9">>, <<"3">>, <<"a", "b", "c">>}

ExpectedPriority(text) ==
    CASE text = <<"1">> -> 1
      [] text = <<"5">> -> 5
      [] text = <<"9">> -> 9
      [] text = <<"3">> -> 3
      [] OTHER -> 0

\* C12: in getReminders and in searchReminders the priority of a record is 0
\* when the priority slot of its line is missing, empty or not a number, and
\* the number itself otherwise: "", "0", "1", "5", "9", "3", "abc" decode to
\* 0, 0, 1, 5, 9, 3, 0, so that 3 is passed through unchanged.
C12_PriorityDecodes ==
    (Succeeded(1) /\ Method(req[1]) \in {"getReminders", "searchReminders"}) =>
        LET lines == NonBlankLines(host[1].lines)
            recs == result[1].value
        IN /\ result[1].ok
           /\ Len(recs) = Len(lines)
           /\ \A i \in 1..Len(lines) :
                  /\ Len(lines[i]) < 8 => recs[i].priority = 0
                  /\ (Len(lines[i]) >= 8 /\ lines[i][8] \in PriorityInputs) =>
                         recs[i].priority = ExpectedPriority(lines[i][8])

C12_Witness ==
    /\ Succeeded(1)
    /\ Method(req[1]) = "searchReminders"
    /\ Len(host[1].lines) = 2
    /\ Len(host[1].lines[1]) = 9
    /\ host[1].lines[1][8] = <<"3">>
    /\ Len(host[1].lines[2]) = 9
    /\ Len(result[1].value) = 2
    /\ result[1].value[1].priority = 3
    /\ result[1].value[2].priority = 5

\* C13: in getReminders and in searchReminders the completed field of a
\* record is true exactly when the third slot of its line is the text `true`;
\* a missing or empty slot and every other text ("0", "no", "True", " true")
\* give false, and the decoding does not raise.
C13_CompletedIsExactTrue ==
    (Succeeded(1) /\ Method(req[1]) \in {"getReminders", "searchReminders"}) =>
        LET lines == NonBlankLines(host[1].lines)
            recs == result[1].value
        IN /\ result[1].ok
           /\ Len(recs) = Len(lines)
           /\ \A i \in 1..Len(lines) :
                  recs[i].completed =
                      (Len(lines[i]) >= 3 /\ lines[i][3] = <<"t", "r", "u", "e">>)

C13_Witness ==
    /\ Succeeded(1)
    /\ Method(req[1]) = "getReminders"
    /\ Len(host[1].lines) = 2
    /\ Len(host[1].lines[1]) >= 3
    /\ host[1].lines[1][3] = <<" ", "t", "r", "u", "e">>
    /\ Len(host[1].lines[2]) = 9
    /\ Len(result[1].value) = 2
    /\ ~result[1].value[1].completed
    /\ result[1].value[2].completed

=============================================================================
